---- MODULE Spec2Model ----
(***************************************************************************)
(* TypeDocParser (parser/index.ts): the four indices built by parse() and  *)
(* buildIndex(), and the query methods answered from them (Spec); and      *)
(* TypeDocMCPServer (index.ts): the request handlers that load the parser  *)
(* on demand, interleaved at their awaits (SpecServer).                    *)
(*                                                                         *)
(* JavaScript values are encoded as follows.                               *)
(*   - a string is a sequence of one-character strings, "" is <<>>;        *)
(*   - a property that may be undefined is an option: <<>> is undefined,   *)
(*     <<v>> is the value v;                                               *)
(*   - a Map is the sequence of its <<key, value>> entries in insertion    *)
(*     order, which is the order a Map iterates in;                        *)
(*   - an array is a sequence.                                             *)
(***************************************************************************)
EXTENDS Integers, Sequences, FiniteSets, TLC

VARIABLES
    file,        \* what fs.readFile(docPath) finds on disk
    doc,         \* TypeDocParser.doc
    index,       \* TypeDocParser.index      Map<id, Reflection>
    nameIndex,   \* TypeDocParser.nameIndex  Map<name, id[]>
    pathIndex,   \* TypeDocParser.pathIndex  Map<path, id>
    kindIndex,   \* TypeDocParser.kindIndex  Map<kind, id[]>
    loadState,   \* outcome of the most recent parse(): "none", "ok", "failed"
    loads,       \* number of parse() calls made on this parser
    successes,   \* number of parse() calls that returned without throwing
    visited,     \* history: every buildIndex visit, in order, with its path
    writes,      \* number of times the file on disk was replaced
    result,      \* the last call made on the parser and what it returned
    phase,       \* TypeDocMCPServer: "constructed", then "running" after start()
    config,      \* TypeDocMCPServer.config: which of docPath, projectPath are set
    parserId,    \* TypeDocMCPServer.parser: 0 is null, k the k-th TypeDocParser made
    requests,    \* the requests received, each with the await its handler is at
    call,        \* one run of the CallTool handler: its input and its response
    child,       \* runCommand: the child process, its events and the promise
    generation,  \* one run of runTypeDocGeneration
    setup        \* one run of generateTypeDocConfig and the project's typedoc.json

vars == <<file, doc, index, nameIndex, pathIndex, kindIndex,
          loadState, loads, successes, visited, writes, result,
          phase, config, parserId, requests,
          call, child, generation, setup>>

parserVars == <<file, doc, index, nameIndex, pathIndex, kindIndex,
                loadState, loads, successes, visited, writes, result>>

server == <<phase, config, parserId, requests>>

tooling == <<call, child, generation, setup>>

indices == <<index, nameIndex, pathIndex, kindIndex>>

\* Bounds of the model.
MaxLoads == 2
MaxWrites == 1
MaxRequests == 2
MaxChunks == 3
MaxCalls == 2

-----------------------------------------------------------------------------
(* JavaScript values *)

Undefined == <<>>
Some(v) == <<v>>
IsDefined(o) == o # Undefined

\* The value null (JSON null, and the "not found" result of the queries).
Null == [isNull |-> TRUE]
IsNull(v) == "isNull" \in DOMAIN v

\* How a call ends: it returns a value, or an exception leaves it.
Return(v) == [error |-> "none", value |-> v]
Throw(e) == [error |-> e, value |-> Undefined]

\* !!x for an optional number: undefined and 0 are falsy.
TruthyNum(o) == IsDefined(o) /\ o[1] # 0
\* !!x for an optional string: undefined and "" are falsy.
TruthyStr(o) == IsDefined(o) /\ o[1] # <<>>

\* `${x}` for an optional string: undefined prints as "undefined".
TemplateStr(o) ==
    IF IsDefined(o) THEN o[1]
    ELSE <<"u", "n", "d", "e", "f", "i", "n", "e", "d">>

\* String.prototype.toLowerCase over the letters the model uses.
LowerChar(c) ==
    CASE c = "A" -> "a"
      [] c = "B" -> "b"
      [] c = "L" -> "l"
      [] c = "W" -> "w"
      [] OTHER -> c

toLowerCase(s) == [i \in 1..Len(s) |-> LowerChar(s[i])]

\* String.prototype.includes: sub occurs in s as a contiguous substring.
includes(s, sub) ==
    \E i \in 0..(Len(s) - Len(sub)) :
        \A j \in 1..Len(sub) : s[i + j] = sub[j]

-----------------------------------------------------------------------------
(* Map<K, V> *)

MapHas(m, k) == \E i \in 1..Len(m) : m[i][1] = k

MapPos(m, k) == CHOOSE i \in 1..Len(m) : m[i][1] = k

\* Map.prototype.get: <<>> (undefined) when the key is absent, else <<value>>.
MapGet(m, k) == IF MapHas(m, k) THEN Some(m[MapPos(m, k)][2]) ELSE Undefined

\* Map.prototype.set: a present key keeps its place in the iteration order.
MapSet(m, k, v) ==
    IF MapHas(m, k)
    THEN [m EXCEPT ![MapPos(m, k)] = <<k, v>>]
    ELSE Append(m, <<k, v>>)

MapSize(m) == Len(m)

-----------------------------------------------------------------------------
(* Reflection kinds *)

ReflectionKind ==
    [ Project |-> 1, Module |-> 2, Namespace |-> 4, Enum |-> 8,
      EnumMember |-> 16, Variable |-> 32, Function |-> 64, Class |-> 128,
      Interface |-> 256, Constructor |-> 512, Property |-> 1024,
      Method |-> 2048, CallSignature |-> 4096, TypeAlias |-> 2097152,
      All |-> 8388607 ]

-----------------------------------------------------------------------------
(* Reflections: the documents the file on disk may hold *)

\* A Reflection as JSON.parse returns it. id, name and kind are options (a
\* JSON object may lack the property); absent children/signatures are <<>>.
Node(id, name, kind, children, signatures) ==
    [id |-> id, name |-> name, kind |-> kind,
     children |-> children, signatures |-> signatures]

Leaf(l) == Node(l.id, l.name, l.kind, <<>>, <<>>)
Inner(l, children, signatures) == Node(l.id, l.name, l.kind, children, signatures)

\* Strings used as names.
sLib == <<"L", "i", "b">>
sWidget == <<"W">>
sRender == <<"r">>
sA == <<"a">>
sUpA == <<"A">>
sAB == <<"a", "b">>
sB == <<"b">>
sC == <<"c">>
sBdotC == <<"b", ".", "c">>
sEmpty == <<>>

Lbl(id, name, kind) == [id |-> id, name |-> name, kind |-> kind]

\* Labelings: the id, name and kind of the nodes of a document, by position
\* in the document. Ids are unique inside a document (types/typedoc.ts:
\* "Unique numeric identifier"); 0 is an id (TypeDoc numbers the project 0).

\* the scenario of the specification: Lib / Widget / render
LibScenario ==
    << Lbl(Some(1), Some(sLib), Some(ReflectionKind.Module)),
       Lbl(Some(2), Some(sWidget), Some(ReflectionKind.Class)),
       Lbl(Some(3), Some(sRender), Some(ReflectionKind.Method)),
       Lbl(Some(4), Some(sRender), Some(ReflectionKind.CallSignature)) >>

\* TypeDoc numbering (the project is 0), same-named nodes
TypeDocNumbering ==
    << Lbl(Some(0), Some(sLib), Some(ReflectionKind.Project)),
       Lbl(Some(1), Some(sWidget), Some(ReflectionKind.Class)),
       Lbl(Some(2), Some(sWidget), Some(ReflectionKind.Class)),
       Lbl(Some(3), Some(sWidget), Some(ReflectionKind.Interface)) >>

\* names differing in case and by a suffix; id 0 below the root; a node
\* without kind and a node of kind 0
CaseAndZero ==
    << Lbl(Some(2), Some(sA), Undefined),
       Lbl(Some(1), Some(sUpA), Some(0)),
       Lbl(Some(0), Some(sUpA), Some(ReflectionKind.Function)),
       Lbl(Some(3), Some(sAB), Some(ReflectionKind.Function)) >>

\* nodes without a name, a node without an id
MissingProperties ==
    << Lbl(Some(1), Some(sLib), Some(ReflectionKind.Module)),
       Lbl(Some(2), Undefined, Some(ReflectionKind.Variable)),
       Lbl(Undefined, Some(sA), Some(ReflectionKind.Enum)),
       Lbl(Some(4), Undefined, Some(ReflectionKind.TypeAlias)) >>

\* a root named ""; a name holding the path separator
EmptyRootDotted ==
    << Lbl(Some(3), Some(sEmpty), Some(ReflectionKind.Module)),
       Lbl(Some(1), Some(sB), Some(ReflectionKind.Namespace)),
       Lbl(Some(2), Some(sC), Some(ReflectionKind.Variable)),
       Lbl(Some(4), Some(sBdotC), Some(ReflectionKind.Variable)) >>

Dotted ==
    << Lbl(Some(4), Some(sA), Some(ReflectionKind.Module)),
       Lbl(Some(3), Some(sB), Some(ReflectionKind.Namespace)),
       Lbl(Some(2), Some(sC), Some(ReflectionKind.Enum)),
       Lbl(Some(1), Some(sBdotC), Some(ReflectionKind.Interface)) >>

Labelings == {LibScenario, TypeDocNumbering, CaseAndZero, MissingProperties,
              EmptyRootDotted, Dotted}

\* Shapes: the documents of at most four nodes built from a labeling l.
Shapes(l) ==
    << Leaf(l[1]),
       Inner(l[1], <<Leaf(l[2])>>, <<>>),
       Inner(l[1], <<>>, <<Leaf(l[2])>>),
       Inner(l[1], <<Leaf(l[2]), Leaf(l[3])>>, <<>>),
       Inner(l[1], <<Leaf(l[2])>>, <<Leaf(l[3])>>),
       Inner(l[1], <<>>, <<Leaf(l[2]), Leaf(l[3])>>),
       Inner(l[1], <<Inner(l[2], <<Leaf(l[3])>>, <<>>)>>, <<>>),
       Inner(l[1], <<Inner(l[2], <<>>, <<Leaf(l[3])>>)>>, <<>>),
       Inner(l[1], <<Inner(l[2], <<Leaf(l[3])>>, <<>>), Leaf(l[4])>>, <<>>),
       Inner(l[1], <<Inner(l[2], <<>>, <<Leaf(l[3]), Leaf(l[4])>>)>>, <<>>),
       Inner(l[1], <<Leaf(l[4])>>, <<Inner(l[2], <<Leaf(l[3])>>, <<>>)>>),
       \* a null entry in children or signatures: reading its id throws
       Inner(l[1], <<Null>>, <<>>),
       Inner(l[1], <<Leaf(l[2]), Null>>, <<>>),
       Inner(l[1], <<Leaf(l[2])>>, <<Null>>) >>

ShapesOf(l) == { Shapes(l)[k] : k \in DOMAIN Shapes(l) }

Documents == UNION { ShapesOf(l) : l \in Labelings }

\* The documents a later generation run may leave at docPath: a smaller one,
\* one that numbers its nodes differently, one whose traversal throws.
RegeneratedDocuments ==
    { Shapes(LibScenario)[1],
      Shapes(TypeDocNumbering)[2],
      Shapes(CaseAndZero)[13] }

\* What the file at docPath may be.
Missing == [file |-> "missing"]          \* fs.readFile rejects
Garbage == [file |-> "not JSON"]         \* JSON.parse throws
JsonNull == [file |-> "null"]            \* JSON.parse returns null
Json(d) == [file |-> "json", root |-> d]

Files == {Missing, Garbage, JsonNull} \cup { Json(d) : d \in Documents }

RegeneratedFiles == {Missing} \cup { Json(d) : d \in RegeneratedDocuments }

-----------------------------------------------------------------------------
(* TypeDocParser.buildIndex *)

\* The indices while buildIndex runs; thrown is set once a step has thrown,
\* after which nothing more is written (the exception unwinds the recursion).
\* visited is the history of the visits; load numbers the parse() call.
IndexState(ix, nx, px, kx, vis, load, thrown) ==
    [index |-> ix, nameIndex |-> nx, pathIndex |-> px, kindIndex |-> kx,
     visited |-> vis, load |-> load, thrown |-> thrown]

Visit(load, node, fullPath) == [load |-> load, node |-> node, path |-> fullPath]

\* A buildIndex that forgets the parent's path.
fullPathOfNameOnly(node, parentPath) == node.name

\* parentPath ? `${parentPath}.${node.name}` : node.name
fullPathOf(node, parentPath) ==
    IF TruthyStr(parentPath)
    THEN Some(parentPath[1] \o <<".">> \o TemplateStr(node.name))
    ELSE node.name

\* A buildIndex that puts the id at the front of its name bucket.
AddNameUnshift(nx, node) ==
    LET got == MapGet(nx, node.name)
        nameIds == IF IsDefined(got) THEN got[1] ELSE <<>>
    IN  MapSet(nx, node.name, <<node.id>> \o nameIds)

\* this.nameIndex.get(node.name) || []; push; set
AddName(nx, node) ==
    LET got == MapGet(nx, node.name)
        nameIds == IF IsDefined(got) THEN got[1] ELSE <<>>
    IN  MapSet(nx, node.name, Append(nameIds, node.id))

\* if (node.kind) { this.kindIndex.get(node.kind) || []; push; set }
AddKind(kx, node) ==
    IF TruthyNum(node.kind)
    THEN LET got == MapGet(kx, node.kind)
             kindIds == IF IsDefined(got) THEN got[1] ELSE <<>>
         IN  MapSet(kx, node.kind, Append(kindIds, node.id))
    ELSE kx

\* The writes buildIndex makes for one node, before it recurses.
IndexNode(st, node, fullPath) ==
    IndexState(MapSet(st.index, node.id, node),
               AddName(st.nameIndex, node),
               MapSet(st.pathIndex, fullPath, node.id),
               AddKind(st.kindIndex, node),
               Append(st.visited, Visit(st.load, node, fullPath)),
               st.load,
               FALSE)

RECURSIVE buildIndex(_, _, _)
RECURSIVE buildIndexAll(_, _, _)

\* for (const child of nodes) this.buildIndex(child, fullPath)
buildIndexAll(st, nodes, fullPath) ==
    IF nodes = <<>> \/ st.thrown THEN st
    ELSE buildIndexAll(buildIndex(st, Head(nodes), fullPath), Tail(nodes), fullPath)

\* A buildIndex that recurses into the signatures before the children.
buildIndexSignaturesFirst(st, node, parentPath) ==
    IF st.thrown THEN st
    ELSE IF IsNull(node) THEN [st EXCEPT !.thrown = TRUE]
    ELSE LET fullPath == fullPathOf(node, parentPath)
             own == IndexNode(st, node, fullPath)
             afterSignatures == buildIndexAll(own, node.signatures, fullPath)
         IN  buildIndexAll(afterSignatures, node.children, fullPath)

buildIndex(st, node, parentPath) ==
    IF st.thrown THEN st
    ELSE IF IsNull(node) THEN [st EXCEPT !.thrown = TRUE]   \* node.id of null
    ELSE LET fullPath == fullPathOf(node, parentPath)
             own == IndexNode(st, node, fullPath)
             afterChildren == buildIndexAll(own, node.children, fullPath)
         IN  buildIndexAll(afterChildren, node.signatures, fullPath)

-----------------------------------------------------------------------------
(* Queries *)

\* getKindString: kindMap[kind] || 'Unknown'
getKindString(kind) ==
    IF ~IsDefined(kind) THEN "Unknown"
    ELSE CASE kind[1] = ReflectionKind.Module -> "Module"
           [] kind[1] = ReflectionKind.Namespace -> "Namespace"
           [] kind[1] = ReflectionKind.Enum -> "Enum"
           [] kind[1] = ReflectionKind.Variable -> "Variable"
           [] kind[1] = ReflectionKind.Function -> "Function"
           [] kind[1] = ReflectionKind.Class -> "Class"
           [] kind[1] = ReflectionKind.Interface -> "Interface"
           [] kind[1] = ReflectionKind.Constructor -> "Constructor"
           [] kind[1] = ReflectionKind.Property -> "Property"
           [] kind[1] = ReflectionKind.Method -> "Method"
           [] kind[1] = ReflectionKind.TypeAlias -> "Type alias"
           [] OTHER -> "Unknown"

\* getPath: the first path of the Path Index, in iteration order, stored with
\* the reflection's id; the reflection's name when there is none.
getPath(px, reflection) ==
    IF \E i \in 1..Len(px) : px[i][2] = reflection.id
    THEN LET first == CHOOSE i \in 1..Len(px) :
                          /\ px[i][2] = reflection.id
                          /\ \A j \in 1..(i - 1) : px[j][2] # reflection.id
         IN  px[first][1]
    ELSE reflection.name

\* createParsedSymbol (the documents carry no kindString)
createParsedSymbol(px, reflection) ==
    [id |-> reflection.id, name |-> reflection.name,
     kind |-> getKindString(reflection.kind),
     path |-> getPath(px, reflection),
     reflection |-> reflection]

\* for (const id of ids) { const r = index.get(id); if (r) results.push(...) }
RECURSIVE Resolve(_, _, _)
Resolve(ix, px, ids) ==
    IF ids = <<>> THEN <<>>
    ELSE LET reflection == MapGet(ix, Head(ids))
             rest == Resolve(ix, px, Tail(ids))
         IN  IF IsDefined(reflection)
             THEN <<createParsedSymbol(px, reflection[1])>> \o rest
             ELSE rest

\* findByName(name, exact): name is a string.
\* Partial mode calls symbolName.toLowerCase() on every key of the Name Index
\* it reaches, which throws a TypeError on the key undefined.
RECURSIVE PartialMatches(_, _, _, _)
PartialMatches(nx, ix, px, name) ==
    IF nx = <<>> THEN <<>>
    ELSE LET symbolName == Head(nx)[1]
             ids == Head(nx)[2]
             rest == PartialMatches(Tail(nx), ix, px, name)
         IN  IF includes(toLowerCase(symbolName[1]), toLowerCase(name))
             THEN Resolve(ix, px, ids) \o rest
             ELSE rest

findByName(ix, nx, px, name, exact) ==
    IF exact
    THEN LET got == MapGet(nx, Some(name))
             ids == IF IsDefined(got) THEN got[1] ELSE <<>>
         IN  Return(Resolve(ix, px, ids))
    ELSE IF \E i \in 1..Len(nx) : ~IsDefined(nx[i][1])
         THEN Throw("TypeError")
         ELSE Return(PartialMatches(nx, ix, px, name))

\* findByPath(path): path is a string.
findByPath(ix, px, path) ==
    LET got == MapGet(px, Some(path))
        id == IF IsDefined(got) THEN got[1] ELSE Undefined
    IN  IF ~TruthyNum(id) THEN Null                       \* if (!id) return null
        ELSE LET reflection == MapGet(ix, id)
             IN  IF ~IsDefined(reflection) THEN Null
                 ELSE createParsedSymbol(px, reflection[1])

\* findByKind(kind): kind is a number.
findByKind(ix, kx, px, kind) ==
    LET got == MapGet(kx, Some(kind))
        ids == IF IsDefined(got) THEN got[1] ELSE <<>>
    IN  Resolve(ix, px, ids)

\* A getById that tests the id as findByPath does: if (!id) return null.
getByIdTruthy(ix, id) ==
    LET got == MapGet(ix, Some(id))
    IN  IF id # 0 /\ IsDefined(got) THEN got[1] ELSE Null

\* getById(id): this.index.get(id) || null
getById(ix, id) ==
    LET got == MapGet(ix, Some(id))
    IN  IF IsDefined(got) THEN got[1] ELSE Null

\* this.kindIndex.get(kind)?.length || 0
BucketLength(kx, kind) ==
    LET got == MapGet(kx, Some(kind))
    IN  IF IsDefined(got) THEN Len(got[1]) ELSE 0

getStats(ix, kx) ==
    [total |-> MapSize(ix),
     classes |-> BucketLength(kx, ReflectionKind.Class),
     interfaces |-> BucketLength(kx, ReflectionKind.Interface),
     functions |-> BucketLength(kx, ReflectionKind.Function),
     variables |-> BucketLength(kx, ReflectionKind.Variable),
     types |-> BucketLength(kx, ReflectionKind.TypeAlias),
     enums |-> BucketLength(kx, ReflectionKind.Enum),
     modules |-> BucketLength(kx, ReflectionKind.Module)]

\* getProjectInfo: null until a document was parsed (the documents of the
\* model carry neither packageVersion nor readme).
getProjectInfo(d) ==
    IF IsNull(d) THEN Null
    ELSE [name |-> d.name, version |-> Undefined, readme |-> Undefined]

-----------------------------------------------------------------------------
(* The arguments the callers pass *)

QueryIds == {0, 1, 4}
QueryNames == {sLib, sA, sUpA, sEmpty}
QueryKinds == {0, ReflectionKind.Class, ReflectionKind.All}

\* The strings that are keys of a Path Index.
PathKeys(px) == { px[i][1][1] : i \in { j \in 1..Len(px) : IsDefined(px[j][1]) } }
\* Paths no document of the model registers.
MissPaths == {<<"z">>, <<"L", "i", "b", ".">>}
QueryPaths(px) == PathKeys(px) \cup MissPaths

-----------------------------------------------------------------------------
(* Operations *)

\* No handler, command or setup tool is running.
Idle == [pc |-> "idle"]
NothingRuns ==
    /\ call = Idle
    /\ child = Idle
    /\ generation = Idle
    /\ setup = Idle

Init ==
    /\ file \in Files
    /\ doc = Null
    /\ index = <<>>
    /\ nameIndex = <<>>
    /\ pathIndex = <<>>
    /\ kindIndex = <<>>
    /\ loadState = "none"
    /\ loads = 0
    /\ successes = 0
    /\ visited = <<>>
    /\ writes = 0
    /\ result = [op |-> "new", args |-> <<>>, error |-> "none", value |-> Undefined]
    /\ phase = "constructed"
    /\ config = [docPath |-> FALSE, projectPath |-> FALSE]
    /\ parserId = 0
    /\ requests = <<>>
    /\ NothingRuns

\* The call just made, its arguments and how it ended.
Returned(op, args, outcome) ==
    [op |-> op, args |-> args, error |-> outcome.error, value |-> outcome.value]

\* The file at docPath is replaced (the documentation is generated again).
WriteFile ==
    /\ writes < MaxWrites
    /\ \E f \in RegeneratedFiles \ {file} : file' = f
    /\ writes' = writes + 1
    /\ UNCHANGED <<doc, indices, loadState, loads, successes, visited, result>>
    /\ UNCHANGED server
    /\ UNCHANGED tooling

\* The body of parse() once readFile has settled: JSON.parse, the !this.doc
\* test, buildIndex from the root. Nothing is cleared first: buildIndex
\* writes into the indices as they are. load numbers the call.
ReadAndBuild(load) ==
    /\ IF file \in {Missing, Garbage}
       THEN /\ UNCHANGED <<doc, indices, visited>>
            /\ loadState' = "failed"
       ELSE IF file = JsonNull
       THEN /\ doc' = Null
            /\ UNCHANGED <<indices, visited>>
            /\ loadState' = "failed"
       ELSE LET st == buildIndex(
                          IndexState(index, nameIndex, pathIndex, kindIndex,
                                     visited, load, FALSE),
                          file.root, Some(<<>>))
            IN  /\ doc' = file.root
                /\ index' = st.index
                /\ nameIndex' = st.nameIndex
                /\ pathIndex' = st.pathIndex
                /\ kindIndex' = st.kindIndex
                /\ visited' = st.visited
                /\ loadState' = IF st.thrown THEN "failed" ELSE "ok"
    /\ successes' = IF loadState' = "ok" THEN successes + 1 ELSE successes
    /\ result' = Returned("parse", <<>>,
                          IF loadState' = "ok" THEN Return(Undefined)
                          ELSE Throw("Error"))

\* parse() called and awaited by the owner of the parser.
Parse ==
    /\ loads < MaxLoads
    /\ loads' = loads + 1
    /\ ReadAndBuild(loads + 1)
    /\ UNCHANGED <<file, writes>>
    /\ UNCHANGED server
    /\ UNCHANGED tooling

GetById ==
    /\ \E id \in QueryIds :
          result' = Returned("getById", <<id>>, Return(getById(index, id)))
    /\ UNCHANGED <<file, doc, indices, loadState, loads, successes, visited, writes>>
    /\ UNCHANGED server
    /\ UNCHANGED tooling

FindByName ==
    /\ \E name \in QueryNames, exact \in BOOLEAN :
          result' = Returned("findByName", <<name, exact>>,
                             findByName(index, nameIndex, pathIndex, name, exact))
    /\ UNCHANGED <<file, doc, indices, loadState, loads, successes, visited, writes>>
    /\ UNCHANGED server
    /\ UNCHANGED tooling

FindByPath ==
    /\ \E path \in QueryPaths(pathIndex) :
          result' = Returned("findByPath", <<path>>,
                             Return(findByPath(index, pathIndex, path)))
    /\ UNCHANGED <<file, doc, indices, loadState, loads, successes, visited, writes>>
    /\ UNCHANGED server
    /\ UNCHANGED tooling

\* A findByKind that stores the empty list it answers a miss with.
FindByKindCaching ==
    /\ \E kind \in QueryKinds :
          /\ result' = Returned("findByKind", <<kind>>,
                                Return(findByKind(index, kindIndex, pathIndex, kind)))
          /\ kindIndex' = IF MapHas(kindIndex, Some(kind)) THEN kindIndex
                          ELSE MapSet(kindIndex, Some(kind), <<>>)
    /\ UNCHANGED <<file, doc, index, nameIndex, pathIndex, loadState, loads,
                   successes, visited, writes>>
    /\ UNCHANGED server
    /\ UNCHANGED tooling

FindByKind ==
    /\ \E kind \in QueryKinds :
          result' = Returned("findByKind", <<kind>>,
                             Return(findByKind(index, kindIndex, pathIndex, kind)))
    /\ UNCHANGED <<file, doc, indices, loadState, loads, successes, visited, writes>>
    /\ UNCHANGED server
    /\ UNCHANGED tooling

GetStats ==
    /\ result' = Returned("getStats", <<>>, Return(getStats(index, kindIndex)))
    /\ UNCHANGED <<file, doc, indices, loadState, loads, successes, visited, writes>>
    /\ UNCHANGED server
    /\ UNCHANGED tooling

GetProjectInfo ==
    /\ result' = Returned("getProjectInfo", <<>>, Return(getProjectInfo(doc)))
    /\ UNCHANGED <<file, doc, indices, loadState, loads, successes, visited, writes>>
    /\ UNCHANGED server
    /\ UNCHANGED tooling

Query == GetById \/ FindByName \/ FindByPath \/ FindByKind \/ GetStats \/ GetProjectInfo

Next == WriteFile \/ Parse \/ Query

Spec == Init /\ [][Next]_vars

-----------------------------------------------------------------------------
(* TypeDocMCPServer *)

\* The tools and the resource whose handlers call ensureParserLoaded, and the
\* setup tools, which never touch the parser.
ParserRequiredTools == {"findSymbol", "getDocumentation", "getMembers", "searchByTag"}
OverviewUri == "typedoc://overview"
ParserRequired == ParserRequiredTools \cup {OverviewUri}
SetupTools == {"checkTypeDocSetup", "generateTypeDocConfig"}

\* The command lines: --doc-path, --project-path, both, neither.
Configs == [docPath : BOOLEAN, projectPath : BOOLEAN]

\* What docs/typedoc.json of the project may be when the server starts (the
\* file --doc-path names, and the first place looked in under
\* --project-path; the other two places hold nothing), and what a TypeDoc
\* run leaves there.
ServerFiles ==
    {Missing, Json(Shapes(LibScenario)[2]), Json(Shapes(LibScenario)[13])}
GeneratedDocuments == {Shapes(TypeDocNumbering)[2]}

\* A request: the handler's position (the await it is suspended at, or
\* "done"), the parser object and the number of the parse() call it awaits,
\* and, once done, how it was answered and how many symbols the parser it
\* was answered from held. afterGeneration: a runTypeDocGeneration call had
\* reported success when the request arrived.
Request(kind, pc, target, load, outcome, seen, afterGeneration) ==
    [kind |-> kind, pc |-> pc, target |-> target, load |-> load,
     outcome |-> outcome, seen |-> seen, afterGeneration |-> afterGeneration]

Generated ==
    \E r \in 1..Len(requests) :
        requests[r].kind = "runTypeDocGeneration" /\ requests[r].outcome = "generated"

\* Some request was answered from the indices.
Answered == \E r \in 1..Len(requests) : requests[r].outcome = "answered"

InitServer ==
    /\ file \in ServerFiles
    /\ doc = Null
    /\ index = <<>>
    /\ nameIndex = <<>>
    /\ pathIndex = <<>>
    /\ kindIndex = <<>>
    /\ loadState = "none"
    /\ loads = 0
    /\ successes = 0
    /\ visited = <<>>
    /\ writes = 0
    /\ result = [op |-> "new", args |-> <<>>, error |-> "none", value |-> Undefined]
    /\ phase = "constructed"
    /\ config \in Configs
    /\ parserId = 0                       \* this.parser = null as any
    /\ requests = <<>>
    /\ NothingRuns

\* A start() that loads the documentation before it connects.
StartEager ==
    /\ phase = "constructed"
    /\ phase' = "running"
    /\ IF config.docPath
       THEN /\ parserId' = 1
            /\ loads' = loads + 1
            /\ ReadAndBuild(loads + 1)
       ELSE UNCHANGED <<parserId, loads, doc, indices, visited, loadState,
                        successes, result>>
    /\ UNCHANGED <<file, writes, config, requests>>
    /\ UNCHANGED tooling

\* start(): with docPath a TypeDocParser is constructed, not parsed; then the
\* transport is connected and requests are received.
Start ==
    /\ phase = "constructed"
    /\ phase' = "running"
    /\ parserId' = IF config.docPath THEN 1 ELSE 0
    /\ UNCHANGED <<file, doc, indices, loadState, loads, successes, visited,
                   writes, result, config, requests>>
    /\ UNCHANGED tooling

\* A handler that needs the parser, from the arrival of its request to its
\* first await inside ensureParserLoaded, or to its answer when it meets none.
EnsureParserLoaded(kind) ==
    IF parserId = 0
    THEN /\ requests' = Append(requests,
                IF config.projectPath
                THEN Request(kind, "access", 0, 0, "pending", 0, Generated)
                ELSE Request(kind, "done", 0, 0, "notAvailable", 0, Generated))
         /\ UNCHANGED loads
    ELSE IF getStats(index, kindIndex).total > 0
    THEN /\ requests' = Append(requests,
                Request(kind, "done", parserId, 0, "answered",
                        MapSize(index), Generated))
         /\ UNCHANGED loads
    ELSE /\ requests' = Append(requests,
                Request(kind, "reading", parserId, loads + 1, "pending", 0,
                        Generated))
         /\ loads' = loads + 1

\* CallTool handler, a tool of parserRequiredTools.
CallParserTool ==
    /\ phase = "running"
    /\ Len(requests) < MaxRequests
    /\ \E name \in ParserRequiredTools : EnsureParserLoaded(name)
    /\ UNCHANGED <<file, doc, indices, loadState, successes, visited, writes,
                   result, phase, config, parserId>>
    /\ UNCHANGED tooling

\* ReadResource handler, typedoc://overview.
ReadOverview ==
    /\ phase = "running"
    /\ Len(requests) < MaxRequests
    /\ EnsureParserLoaded(OverviewUri)
    /\ UNCHANGED <<file, doc, indices, loadState, successes, visited, writes,
                   result, phase, config, parserId>>
    /\ UNCHANGED tooling

\* CallTool handler, checkTypeDocSetup or generateTypeDocConfig.
CallSetupTool ==
    /\ phase = "running"
    /\ Len(requests) < MaxRequests
    /\ \E name \in SetupTools :
          requests' = Append(requests,
                             Request(name, "done", 0, 0, "setup", 0, Generated))
    /\ UNCHANGED <<file, doc, indices, loadState, loads, successes, visited,
                   writes, result, phase, config, parserId>>
    /\ UNCHANGED tooling

\* CallTool handler, runTypeDocGeneration: awaits the TypeDoc run.
CallGeneration ==
    /\ phase = "running"
    /\ Len(requests) < MaxRequests
    /\ requests' = Append(requests,
                          Request("runTypeDocGeneration", "generating", 0, 0,
                                  "pending", 0, Generated))
    /\ UNCHANGED <<file, doc, indices, loadState, loads, successes, visited,
                   writes, result, phase, config, parserId>>
    /\ UNCHANGED tooling

\* The TypeDoc run ends: it wrote docs/typedoc.json, or it failed.
GenerationSettles ==
    \E r \in 1..Len(requests) :
        /\ requests[r].pc = "generating"
        /\ \/ /\ \E d \in GeneratedDocuments : file' = Json(d)
              /\ writes' = writes + 1
              /\ requests' = [requests EXCEPT ![r].pc = "done",
                                              ![r].outcome = "generated"]
           \/ /\ UNCHANGED <<file, writes>>
              /\ requests' = [requests EXCEPT ![r].pc = "done",
                                              ![r].outcome = "failed"]
        /\ UNCHANGED <<doc, indices, loadState, loads, successes, visited,
                       result, phase, config, parserId>>
        /\ UNCHANGED tooling

\* ensureParserLoaded resumes after fs.access: on success a new TypeDocParser
\* replaces this.parser, its getStats().total is 0 and parse() is called; on
\* failure (of all three places) the handler answers "not available".
FsAccessSettles ==
    \E r \in 1..Len(requests) :
        /\ requests[r].pc = "access"
        /\ IF file # Missing
           THEN /\ parserId' = parserId + 1
                /\ config' = [config EXCEPT !.docPath = TRUE]
                /\ doc' = Null
                /\ index' = <<>>
                /\ nameIndex' = <<>>
                /\ pathIndex' = <<>>
                /\ kindIndex' = <<>>
                /\ visited' = <<>>
                /\ loadState' = "none"
                /\ successes' = 0
                /\ loads' = loads + 1
                /\ requests' = [requests EXCEPT ![r].pc = "reading",
                                                ![r].target = parserId + 1,
                                                ![r].load = loads + 1]
           ELSE /\ requests' = [requests EXCEPT ![r].pc = "done",
                                                ![r].outcome = "notAvailable"]
                /\ UNCHANGED <<parserId, config, doc, indices, visited,
                               loadState, successes, loads>>
        /\ UNCHANGED <<file, writes, result, phase>>
        /\ UNCHANGED tooling

\* parse() of a parser that this.parser no longer refers to: whether it
\* returns, filling indices nobody reads.
DetachedParseReturns ==
    /\ file \notin {Missing, Garbage, JsonNull}
    /\ ~buildIndex(IndexState(<<>>, <<>>, <<>>, <<>>, <<>>, 0, FALSE),
                   file.root, Some(<<>>)).thrown

\* parse() resumes after fs.readFile and runs to its end; ensureParserLoaded
\* returns true or false and the handler answers, from this.parser.
ReadFileSettles ==
    \E r \in 1..Len(requests) :
        /\ requests[r].pc = "reading"
        /\ IF requests[r].target = parserId
           THEN /\ ReadAndBuild(requests[r].load)
                /\ requests' =
                       [requests EXCEPT
                           ![r].pc = "done",
                           ![r].outcome = IF loadState' = "ok" THEN "answered"
                                          ELSE "notAvailable",
                           ![r].seen = IF loadState' = "ok" THEN MapSize(index')
                                       ELSE 0]
           ELSE /\ UNCHANGED <<doc, indices, visited, loadState, successes, result>>
                /\ requests' =
                       [requests EXCEPT
                           ![r].pc = "done",
                           ![r].outcome = IF DetachedParseReturns THEN "answered"
                                          ELSE "notAvailable",
                           ![r].seen = IF DetachedParseReturns THEN MapSize(index)
                                       ELSE 0]
        /\ UNCHANGED <<file, loads, writes, phase, config, parserId>>
        /\ UNCHANGED tooling

NextServer ==
    \/ Start
    \/ CallParserTool
    \/ ReadOverview
    \/ CallSetupTool
    \/ CallGeneration
    \/ GenerationSettles
    \/ FsAccessSettles
    \/ ReadFileSettles

SpecServer == InitServer /\ [][NextServer]_vars

-----------------------------------------------------------------------------
(* The tools answered from the parser (tools/find-symbol, get-documentation) *)

\* kindMap[params.kind]: undefined for a string that is no key.
kindMap(kind) ==
    CASE kind = "class" -> Some(ReflectionKind.Class)
      [] kind = "interface" -> Some(ReflectionKind.Interface)
      [] kind = "function" -> Some(ReflectionKind.Function)
      [] kind = "type" -> Some(ReflectionKind.TypeAlias)
      [] kind = "enum" -> Some(ReflectionKind.Enum)
      [] kind = "variable" -> Some(ReflectionKind.Variable)
      [] OTHER -> Undefined

\* What findSymbol returns of an entry (the documents carry no sources).
SymbolOf(s) ==
    [name |-> s.name, kind |-> s.kind, path |-> s.path, id |-> s.id,
     source |-> Undefined]

\* A findSymbol whose exact defaults to false.
findSymbolPartialDefault(ix, nx, px, params) ==
    LET exact == IF IsDefined(params.exact) THEN params.exact[1] ELSE FALSE
        found == findByName(ix, nx, px, params.name, exact)
    IN  IF found.error # "none" THEN found
        ELSE LET symbols ==
                     IF IsDefined(params.kind) /\ params.kind[1] # ""
                        /\ Len(found.value) > 0
                     THEN SelectSeq(found.value,
                              LAMBDA s : s.reflection.kind = kindMap(params.kind[1]))
                     ELSE found.value
             IN  Return([i \in 1..Len(symbols) |-> SymbolOf(symbols[i])])

\* findSymbol(parser, params): params.kind and params.exact may be undefined.
findSymbol(ix, nx, px, params) ==
    LET exact == IF IsDefined(params.exact) THEN params.exact[1] ELSE TRUE
        found == findByName(ix, nx, px, params.name, exact)
    IN  IF found.error # "none" THEN found
        ELSE LET symbols ==
                     IF IsDefined(params.kind) /\ params.kind[1] # ""
                        /\ Len(found.value) > 0
                     THEN SelectSeq(found.value,
                              LAMBDA s : s.reflection.kind = kindMap(params.kind[1]))
                     ELSE found.value
             IN  Return([i \in 1..Len(symbols) |-> SymbolOf(symbols[i])])

\* The object getDocumentation builds for a reflection; the documents carry
\* no kindString, comment, flags or sources, so the other properties are
\* absent. reflection is the node the object was built from.
Documentation(reflection) ==
    [name |-> reflection.name, kind |-> "Unknown", description |-> <<>>,
     reflection |-> reflection]

\* getDocumentation(parser, params): symbolId and symbolPath may be undefined.
getDocumentation(ix, px, params) ==
    IF ~IsDefined(params.symbolId) /\ ~IsDefined(params.symbolPath)
    THEN Throw("Either symbolId or symbolPath must be provided")
    ELSE LET reflection ==
                 IF IsDefined(params.symbolId)
                 THEN getById(ix, params.symbolId[1])
                 ELSE IF TruthyStr(params.symbolPath)
                 THEN LET symbol == findByPath(ix, px, params.symbolPath[1])
                      IN  IF IsNull(symbol) THEN Null ELSE symbol.reflection
                 ELSE Null
         IN  IF IsNull(reflection) THEN Throw("Symbol not found")
             ELSE Return(Documentation(reflection))

\* The arguments the tool callers pass.
FindSymbolParams ==
    [name : {sWidget, sA}, kind : {Undefined, Some("class")},
     exact : {Undefined, Some(FALSE)}]
GetDocumentationParams ==
    [symbolId : {Undefined, Some(0)},
     symbolPath : {Undefined, Some(sEmpty), Some(sLib)}]

FindSymbolTool ==
    /\ \E params \in FindSymbolParams :
          result' = Returned("findSymbol", <<params>>,
                             findSymbol(index, nameIndex, pathIndex, params))
    /\ UNCHANGED <<file, doc, indices, loadState, loads, successes, visited, writes>>
    /\ UNCHANGED server
    /\ UNCHANGED tooling

GetDocumentationTool ==
    /\ \E params \in GetDocumentationParams :
          result' = Returned("getDocumentation", <<params>>,
                             getDocumentation(index, pathIndex, params))
    /\ UNCHANGED <<file, doc, indices, loadState, loads, successes, visited, writes>>
    /\ UNCHANGED server
    /\ UNCHANGED tooling

\* The parser with the two tools as its callers.
NextTools == WriteFile \/ Parse \/ FindSymbolTool \/ GetDocumentationTool

SpecTools == Init /\ [][NextTools]_vars

-----------------------------------------------------------------------------
(* runCommand (tools/run-generation) *)

\* The parser and the server when only a setup tool runs.
NoParser ==
    /\ file = Missing
    /\ doc = Null
    /\ index = <<>>
    /\ nameIndex = <<>>
    /\ pathIndex = <<>>
    /\ kindIndex = <<>>
    /\ loadState = "none"
    /\ loads = 0
    /\ successes = 0
    /\ visited = <<>>
    /\ writes = 0
    /\ result = [op |-> "new", args |-> <<>>, error |-> "none", value |-> Undefined]
    /\ phase = "constructed"
    /\ config = [docPath |-> FALSE, projectPath |-> FALSE]
    /\ parserId = 0
    /\ requests = <<>>

\* What becomes of the spawned child: it exits with code 0 or 1, the shell
\* does not find the command (127), it is terminated by a signal (no exit
\* code), or it cannot be spawned.
Fates == {"exit0", "exit1", "exit127", "signal", "spawnError"}

\* The code the 'close' event carries: null (undefined here) after a signal,
\* the negated errno after a failed spawn.
CloseCodeOf(fate) ==
    CASE fate = "exit0" -> Some(0)
      [] fate = "exit1" -> Some(1)
      [] fate = "exit127" -> Some(127)
      [] fate = "signal" -> Undefined
      [] fate = "spawnError" -> Some(-2)

\* code || 0
CodeOrZero(code) == IF IsDefined(code) /\ code[1] # 0 THEN code[1] ELSE 0

\* resolve(value): only the first call settles the promise.
Settle(promise, value) == IF IsDefined(promise) THEN promise ELSE Some(value)

\* new Promise(...): spawn, the listeners are attached, nothing has happened.
InitCommand ==
    /\ NoParser
    /\ call = Idle
    /\ generation = Idle
    /\ setup = Idle
    /\ \E fate \in Fates :
          child = [pc |-> "running", fate |-> fate, stdout |-> <<>>,
                   stderr |-> <<>>, errored |-> FALSE, closed |-> FALSE,
                   first |-> "none", promise |-> Undefined]

\* proc.stdout 'data'
StdoutData ==
    /\ child.pc = "running"
    /\ child.fate # "spawnError"
    /\ ~child.closed
    /\ Len(child.stdout) < MaxChunks
    /\ child' = [child EXCEPT !.stdout = Append(@, "out")]
    /\ UNCHANGED <<parserVars, server, call, generation, setup>>

\* proc.stderr 'data'
StderrData ==
    /\ child.pc = "running"
    /\ child.fate # "spawnError"
    /\ ~child.closed
    /\ Len(child.stderr) < MaxChunks
    /\ child' = [child EXCEPT !.stderr = Append(@, "err")]
    /\ UNCHANGED <<parserVars, server, call, generation, setup>>

\* proc 'error': the spawn failed; it comes before 'close', if that comes.
ErrorEvent ==
    /\ child.pc = "running"
    /\ child.fate = "spawnError"
    /\ ~child.errored
    /\ ~child.closed
    /\ LET stderr == Append(child.stderr, "message")
       IN  child' = [child EXCEPT
                        !.errored = TRUE,
                        !.stderr = stderr,
                        !.first = IF @ = "none" THEN "error" ELSE @,
                        !.promise = Settle(@, [stdout |-> child.stdout,
                                                stderr |-> stderr, code |-> 1])]
    /\ UNCHANGED <<parserVars, server, call, generation, setup>>

\* proc 'close'
CloseEvent ==
    /\ child.pc = "running"
    /\ ~child.closed
    /\ child.fate = "spawnError" => child.errored
    /\ child' = [child EXCEPT
                    !.closed = TRUE,
                    !.first = IF @ = "none" THEN "close" ELSE @,
                    !.promise = Settle(@, [stdout |-> child.stdout,
                                            stderr |-> child.stderr,
                                            code |-> CodeOrZero(CloseCodeOf(child.fate))])]
    /\ UNCHANGED <<parserVars, server, call, generation, setup>>

NextCommand == StdoutData \/ StderrData \/ ErrorEvent \/ CloseEvent

SpecCommand == InitCommand /\ [][NextCommand]_vars

-----------------------------------------------------------------------------
(* runTypeDocGeneration (tools/run-generation) *)

\* The code runCommand resolves with for a child of the given fate: 1 from
\* the 'error' listener, which comes first, else what 'close' reports.
runCommand(fate) ==
    IF fate = "spawnError" THEN 1 ELSE CodeOrZero(CloseCodeOf(fate))

\* package.json of the project: missing, not JSON, or an object with an
\* entry for typedoc (a version range, possibly the empty one, or none) in
\* devDependencies and in dependencies.
VersionRanges == {Undefined, Some(<<>>), Some(<<"*">>)}

PackageJsons ==
    {[state |-> "missing", devDependencies |-> Undefined, dependencies |-> Undefined],
     [state |-> "garbage", devDependencies |-> Undefined, dependencies |-> Undefined]}
    \cup [state : {"json"}, devDependencies : VersionRanges,
          dependencies : VersionRanges]

\* Truthiness of an optional string.
TruthyString(v) == IsDefined(v) /\ v[1] # <<>>

\* packageJson.devDependencies?.typedoc || packageJson.dependencies?.typedoc
hasTypedoc(packageJson) ==
    TruthyString(packageJson.devDependencies) \/ TruthyString(packageJson.dependencies)

\* options?.install
InstallOptions == {Undefined, Some(FALSE), Some(TRUE)}

TruthyBool(v) == IsDefined(v) /\ v[1]

Finish(message) ==
    generation' = [generation EXCEPT !.pc = "done", !.message = message]

\* The call is made.
InitGeneration ==
    /\ NoParser
    /\ call = Idle
    /\ child = Idle
    /\ setup = Idle
    /\ \E packageJson \in PackageJsons, install \in InstallOptions :
          generation = [pc |-> "accessPackageJson", packageJson |-> packageJson,
                        install |-> install, commands |-> <<>>,
                        installFate |-> "none", installedTypedoc |-> FALSE,
                        hasConfig |-> FALSE, message |-> "none"]

\* await fs.access(package.json)
AccessPackageJson ==
    /\ generation.pc = "accessPackageJson"
    /\ IF generation.packageJson.state = "missing"
       THEN Finish("No package.json found. Is this a Node.js project?")
       ELSE generation' = [generation EXCEPT !.pc = "readPackage"]
    /\ UNCHANGED <<parserVars, server, call, child, setup>>

\* JSON.parse(await fs.readFile(package.json)) and the choice of a branch;
\* the install branch starts `which npm`.
ReadPackage ==
    /\ generation.pc = "readPackage"
    /\ IF generation.packageJson.state = "garbage"
       THEN Finish("Error running TypeDoc")
       ELSE IF ~hasTypedoc(generation.packageJson) /\ TruthyBool(generation.install)
       THEN generation' = [generation EXCEPT
                              !.pc = "commandExists",
                              !.commands = Append(@, "which npm")]
       ELSE IF ~hasTypedoc(generation.packageJson)
       THEN Finish("TypeDoc is not installed. Run with install: true to install it automatically.")
       ELSE generation' = [generation EXCEPT !.pc = "config"]
    /\ UNCHANGED <<parserVars, server, call, child, setup>>

\* commandExists('npm') settles; npm install is started when npm exists.
CommandExistsSettles ==
    /\ generation.pc = "commandExists"
    /\ \E fate \in Fates :
          IF runCommand(fate) = 0
          THEN generation' = [generation EXCEPT
                                 !.pc = "install",
                                 !.commands = Append(@, "npm install --save-dev typedoc")]
          ELSE Finish("npm is not installed. Please install Node.js and npm first.")
    /\ UNCHANGED <<parserVars, server, call, child, setup>>

\* npm install settles.
InstallSettles ==
    /\ generation.pc = "install"
    /\ \E fate \in Fates :
          IF runCommand(fate) # 0
          THEN generation' = [generation EXCEPT
                                 !.pc = "done",
                                 !.installFate = fate,
                                 !.message = "Failed to install TypeDoc"]
          ELSE generation' = [generation EXCEPT
                                 !.pc = "config",
                                 !.installFate = fate,
                                 !.installedTypedoc = TRUE]
    /\ UNCHANGED <<parserVars, server, call, child, setup>>

\* The configuration is looked for and npx typedoc is started.
RunTypeDoc ==
    /\ generation.pc = "config"
    /\ \E hasConfig \in BOOLEAN :
          generation' = [generation EXCEPT
                            !.pc = "generate",
                            !.hasConfig = hasConfig,
                            !.commands = Append(@, "npx typedoc")]
    /\ UNCHANGED <<parserVars, server, call, child, setup>>

\* npx typedoc settles.
TypeDocSettles ==
    /\ generation.pc = "generate"
    /\ \E fate \in Fates :
          IF runCommand(fate) # 0
          THEN Finish("TypeDoc generation failed")
          ELSE Finish("Documentation generated successfully")
    /\ UNCHANGED <<parserVars, server, call, child, setup>>

NextGeneration ==
    \/ AccessPackageJson
    \/ ReadPackage
    \/ CommandExistsSettles
    \/ InstallSettles
    \/ RunTypeDoc
    \/ TypeDocSettles

SpecGeneration == InitGeneration /\ [][NextGeneration]_vars

-----------------------------------------------------------------------------
(* generateTypeDocConfig (tools/check-setup) *)

\* options?.entryPoints: none, the empty list, or a list.
EntryPointOptions == {Undefined, Some(<<>>), Some(<<"./lib">>)}

\* What the project holds: TypeScript files in src, in lib, index.ts at the
\* root.  src/index.ts is a TypeScript file in src.
Layouts == [src : BOOLEAN, lib : BOOLEAN, indexTs : BOOLEAN, srcIndexTs : BOOLEAN]

ProjectLayouts == {l \in Layouts : l.srcIndexTs => l.src}

\* The entry points detected in a project.
DetectEntryPoints(layout) ==
    LET dirs == (IF layout.src THEN <<"./src">> ELSE <<>>)
                \o (IF layout.lib THEN <<"./lib">> ELSE <<>>)
        withIndex == IF Len(dirs) = 0 /\ layout.indexTs
                     THEN <<"./index.ts">> ELSE dirs
    IN  IF Len(withIndex) = 0 /\ layout.srcIndexTs
        THEN <<"./src/index.ts">> ELSE withIndex

\* What fs.writeFile does: it writes the file, it rejects before the file is
\* opened, or it rejects after the file was created and truncated.
WriteOutcomes == {"written", "rejected", "rejectedAfterOpen"}

Fail(message) ==
    setup' = [setup EXCEPT !.pc = "done", !.success = Some(FALSE), !.message = message]

\* The call is made; typedoc.json is there or not.
InitConfig ==
    /\ NoParser
    /\ call = Idle
    /\ child = Idle
    /\ generation = Idle
    /\ \E disk \in {"absent", "existing"}, options \in EntryPointOptions,
          layout \in ProjectLayouts :
          setup = [pc |-> "accessConfig", disk |-> disk, options |-> options,
                   layout |-> layout, entryPoints |-> <<>>, touched |-> "no",
                   success |-> Undefined, message |-> "none"]

\* await fs.access(configPath)
AccessConfig ==
    /\ setup.pc = "accessConfig"
    /\ IF setup.disk # "absent"
       THEN Fail("typedoc.json already exists. Delete it first or use the existing configuration.")
       ELSE setup' = [setup EXCEPT !.pc = "entryPoints"]
    /\ UNCHANGED <<parserVars, server, call, child, generation>>

\* The entry points: given, or detected when none are given.
ChooseEntryPoints ==
    /\ setup.pc = "entryPoints"
    /\ LET entryPoints == IF IsDefined(setup.options) THEN setup.options[1]
                          ELSE DetectEntryPoints(setup.layout)
       IN  IF Len(entryPoints) = 0
           THEN Fail("Could not detect any TypeScript entry points. Please specify them manually.")
           ELSE setup' = [setup EXCEPT !.pc = "writeFile", !.entryPoints = entryPoints]
    /\ UNCHANGED <<parserVars, server, call, child, generation>>

\* Someone else creates typedoc.json while the call is in progress.
OtherCreatesConfig ==
    /\ setup.pc \in {"entryPoints", "writeFile"}
    /\ setup.disk = "absent"
    /\ setup' = [setup EXCEPT !.disk = "existing"]
    /\ UNCHANGED <<parserVars, server, call, child, generation>>

\* await fs.writeFile(configPath, configContent, 'utf-8') and the return
WriteConfig ==
    /\ setup.pc = "writeFile"
    /\ \E outcome \in WriteOutcomes :
          CASE outcome = "written" ->
                   setup' = [setup EXCEPT
                                !.pc = "done", !.disk = "generated",
                                !.touched = "written", !.success = Some(TRUE),
                                !.message = "TypeDoc configuration created successfully"]
            [] outcome = "rejected" ->
                   Fail("Error generating configuration")
            [] outcome = "rejectedAfterOpen" ->
                   setup' = [setup EXCEPT
                                !.pc = "done", !.disk = "truncated",
                                !.touched = "truncated", !.success = Some(FALSE),
                                !.message = "Error generating configuration"]
    /\ UNCHANGED <<parserVars, server, call, child, generation>>

NextConfig == AccessConfig \/ ChooseEntryPoints \/ OtherCreatesConfig \/ WriteConfig

SpecConfig == InitConfig /\ [][NextConfig]_vars

-----------------------------------------------------------------------------
(* The server's tool-call handler *)

\* The names a call may carry: the seven tools and a name of no tool.
CalledNames ==
    ParserRequiredTools \cup SetupTools \cup {"runTypeDocGeneration", "noSuchTool"}

\* request.params.arguments: left out, or an object.
CalledArguments == {Undefined, Some("object")}

\* What is thrown: an Error with a message, or a value that is no Error.
Thrown == {[isError |-> TRUE, message |-> "Symbol not found"],
           [isError |-> TRUE, message |-> "Cannot read properties of undefined"],
           [isError |-> FALSE, message |-> "rejected"]}

\* error instanceof Error ? error.message : 'Unknown error'
MessageOf(error) == IF error.isError THEN error.message ELSE "Unknown error"

\* A response with one text item; the text is kept as its parts.
TextResponse(text, isError) ==
    Some([content |-> <<[type |-> "text", text |-> text]>>, isError |-> isError])

\* The handler's catch.
CaughtByHandler(error) == TextResponse(<<"Error: ", MessageOf(error)>>, FALSE)

NotAvailable ==
    TextResponse(<<"Error: ", "Documentation not available. Use --doc-path to specify a TypeDoc JSON file, or use the setup tools to generate documentation.">>, FALSE)

\* What the wrapper of a setup tool begins its own error text with.
WrapperPrefix(name) ==
    CASE name = "checkTypeDocSetup" -> "Error checking TypeDoc setup: "
      [] name = "generateTypeDocConfig" -> "Error generating TypeDoc configuration: "
      [] name = "runTypeDocGeneration" -> "Error running TypeDoc generation: "

\* The heading of a setup tool's report.
ReportHeading(name) ==
    CASE name = "checkTypeDocSetup" -> "## TypeDoc Setup Status for "
      [] name = "generateTypeDocConfig" -> "## TypeDoc Configuration Generation"
      [] name = "runTypeDocGeneration" -> "## TypeDoc Generation"

Respond(response, failure) ==
    call' = [call EXCEPT !.pc = "done", !.response = response, !.failure = failure]

\* A request arrives.
InitHandler ==
    /\ NoParser
    /\ child = Idle
    /\ generation = Idle
    /\ setup = Idle
    /\ \E name \in CalledNames, args \in CalledArguments :
          call = [pc |-> "called", name |-> name, args |-> args,
                  response |-> Undefined, propagated |-> FALSE,
                  failure |-> "none", calls |-> 1]

\* The next request arrives once the handler has returned.
NextCall ==
    /\ call.pc = "done"
    /\ ~call.propagated
    /\ call.calls < MaxCalls
    /\ \E name \in CalledNames, args \in CalledArguments :
          call' = [pc |-> "called", name |-> name, args |-> args,
                   response |-> Undefined, propagated |-> FALSE,
                   failure |-> "none", calls |-> call.calls + 1]
    /\ UNCHANGED <<parserVars, server, child, generation, setup>>

\* Up to the first await: ensureParserLoaded for the tools that need the
\* parser, the tool for the setup tools, the default branch for other names.
Dispatch ==
    /\ call.pc = "called"
    /\ IF call.name \in ParserRequiredTools
       THEN call' = [call EXCEPT !.pc = "ensureParserLoaded"]
       ELSE IF call.name \in SetupTools \cup {"runTypeDocGeneration"}
       THEN call' = [call EXCEPT !.pc = "tool"]
       ELSE Respond(CaughtByHandler([isError |-> TRUE, message |-> "Unknown tool: noSuchTool"]),
                    "unknownTool")
    /\ UNCHANGED <<parserVars, server, child, generation, setup>>

\* await this.ensureParserLoaded()
EnsureSettles ==
    /\ call.pc = "ensureParserLoaded"
    /\ \E loaded \in BOOLEAN :
          IF loaded
          THEN call' = [call EXCEPT !.pc = "tool"]
          ELSE Respond(NotAvailable, "notLoaded")
    /\ UNCHANGED <<parserVars, server, child, generation, setup>>

\* A handler without the catch: what a tool throws leaves the handler.
ParserToolSettlesUncaught ==
    /\ call.pc = "tool"
    /\ call.name \in ParserRequiredTools
    /\ \/ /\ IsDefined(call.args)
          /\ Respond(TextResponse(<<"JSON">>, FALSE), "none")
       \/ \E error \in Thrown :
             /\ IsDefined(call.args) \/ error.message = "Cannot read properties of undefined"
             /\ call' = [call EXCEPT !.pc = "done", !.propagated = TRUE,
                                     !.failure = "toolThrew"]
    /\ UNCHANGED <<parserVars, server, child, generation, setup>>

\* findSymbol, getDocumentation, getMembers or searchByTag returns or throws.
ParserToolSettles ==
    /\ call.pc = "tool"
    /\ call.name \in ParserRequiredTools
    /\ \/ /\ IsDefined(call.args)
          /\ Respond(TextResponse(<<"JSON">>, FALSE), "none")
       \/ \E error \in Thrown :
             /\ IsDefined(call.args) \/ error.message = "Cannot read properties of undefined"
             /\ Respond(CaughtByHandler(error), "toolThrew")
    /\ UNCHANGED <<parserVars, server, child, generation, setup>>

\* The wrapper of a setup tool returns: its report, its report of a failed
\* result, or the text of its own catch.
SetupToolSettles ==
    /\ call.pc = "tool"
    /\ call.name \in SetupTools \cup {"runTypeDocGeneration"}
    /\ \/ /\ IsDefined(call.args)
          /\ Respond(TextResponse(<<ReportHeading(call.name), "Success">>, FALSE), "none")
       \/ /\ IsDefined(call.args)
          /\ call.name # "checkTypeDocSetup"
          /\ Respond(TextResponse(<<ReportHeading(call.name), "Failed">>, FALSE), "toolFailed")
       \/ \E error \in Thrown :
             /\ IsDefined(call.args) \/ error.message = "Cannot read properties of undefined"
             /\ Respond(TextResponse(<<WrapperPrefix(call.name), MessageOf(error)>>, TRUE),
                        "toolThrew")
    /\ UNCHANGED <<parserVars, server, child, generation, setup>>

NextHandler ==
    Dispatch \/ EnsureSettles \/ ParserToolSettles \/ SetupToolSettles \/ NextCall

SpecHandler == InitHandler /\ [][NextHandler]_vars

-----------------------------------------------------------------------------
(* What the claims speak of *)

\* The nodes of a document in depth-first pre-order: a node, the subtrees of
\* its children in sequence, then the subtrees of its signatures.
RECURSIVE Preorder(_)
RECURSIVE PreorderAll(_)
PreorderAll(nodes) ==
    IF nodes = <<>> THEN <<>>
    ELSE Preorder(Head(nodes)) \o PreorderAll(Tail(nodes))
Preorder(node) ==
    IF IsNull(node) THEN <<>>
    ELSE <<node>> \o PreorderAll(node.children) \o PreorderAll(node.signatures)

\* The nodes reachable from the root over children and signatures edges.
ReachableNodes(root) == { Preorder(root)[i] : i \in 1..Len(Preorder(root)) }

RECURSIVE SumLen(_)
SumLen(m) == IF m = <<>> THEN 0 ELSE Len(Head(m)[2]) + SumLen(Tail(m))

\* The reflections of a list of resolved entries, in order.
Reflections(entries) == [i \in 1..Len(entries) |-> entries[i].reflection]

\* The most recent parse() returned normally.
Loaded == loadState = "ok"

QueryOps == {"getById", "findByName", "findByPath", "findByKind", "getStats"}

\* The visits of the most recent parse() call.
LastLoadVisits == SelectSeq(visited, LAMBDA v : v.load = loads)

\* Every string a caller may ask for: the query names and the names of the
\* loaded document.
AskedNames ==
    QueryNames \cup
    { n.name[1] : n \in { m \in ReachableNodes(doc) : IsDefined(m.name) } }

-----------------------------------------------------------------------------
(* Claims *)

\* C1: after a successful load every node reachable from the root is in the
\* ID Index exactly once, under its own id, and the ID Index holds nothing
\* else.
C1_IdIndexIsTheTree ==
    Loaded =>
        /\ \A n \in ReachableNodes(doc) :
              Cardinality({ i \in 1..Len(index) : index[i][2] = n }) = 1
              /\ MapGet(index, n.id) = Some(n)
        /\ \A i \in 1..Len(index) : index[i][2] \in ReachableNodes(doc)

\* C2: a query made on an engine that never completed a successful load
\* ends with the NotLoaded error.
C2_QueryBeforeLoadIsNotLoaded ==
    (result.op \in QueryOps /\ successes = 0) => result.error = "NotLoaded"

\* C3: a load attempt that fails contributes no entry to any of the four
\* indices.
C3_FailedLoadContributesNothing ==
    [][(loads' = loads + 1 /\ loadState' = "failed") => indices' = indices]_vars

\* The last visit of node n, and whether a different node computed the same
\* path in a later visit.
LastVisitOf(n) ==
    CHOOSE i \in 1..Len(visited) :
        /\ visited[i].node = n
        /\ \A j \in (i + 1)..Len(visited) : visited[j].node # n
OverwrittenLater(n) ==
    \E j \in (LastVisitOf(n) + 1)..Len(visited) :
        /\ visited[j].path = visited[LastVisitOf(n)].path
        /\ visited[j].node # n

\* C4: for every indexed node, findByPath(getPath(node)) is that node,
\* unless another node computed the same path and was traversed later.
C4_PathRoundTrip ==
    Loaded =>
        \A i \in 1..Len(index) :
            LET n == index[i][2]
                p == getPath(pathIndex, n)
            IN  ~OverwrittenLater(n) =>
                    /\ IsDefined(p)
                    /\ ~IsNull(findByPath(index, pathIndex, p[1]))
                    /\ findByPath(index, pathIndex, p[1]).reflection = n

\* C5: for every key of the Path Index findByPath returns the entry of the
\* node whose id is stored under it, whatever that id is; for a string that
\* is no key it returns null.
C5_FindByPathServesEveryKey ==
    Loaded =>
        /\ \A i \in 1..Len(pathIndex) :
              IsDefined(pathIndex[i][1]) =>
                  LET found == findByPath(index, pathIndex, pathIndex[i][1][1])
                      stored == MapGet(index, pathIndex[i][2])
                  IN  /\ IsDefined(stored)
                      /\ ~IsNull(found)
                      /\ found.reflection = stored[1]
        /\ \A path \in MissPaths \ PathKeys(pathIndex) :
              IsNull(findByPath(index, pathIndex, path))

\* C6: when two distinct nodes computed the same path during one load, the
\* Path Index holds the id of the later-visited one and findByPath returns
\* that node.
C6_LaterNodeWinsCollision ==
    Loaded =>
        \A i, j \in 1..Len(LastLoadVisits) :
            LET early == LastLoadVisits[i]
                late == LastLoadVisits[j]
            IN  (/\ i < j
                 /\ early.path = late.path
                 /\ IsDefined(late.path)
                 /\ \A k \in (j + 1)..Len(LastLoadVisits) :
                        LastLoadVisits[k].path # late.path)
                => /\ MapGet(pathIndex, late.path) = Some(late.node.id)
                   /\ ~IsNull(findByPath(index, pathIndex, late.path[1]))
                   /\ findByPath(index, pathIndex, late.path[1]).reflection
                          = late.node

\* C7: exact-mode findByName for a name carried by N nodes of the loaded
\* tree returns N entries, one per node, in discovery order, after any
\* sequence of loads.
C7_ExactNameIsOccurrences ==
    Loaded =>
        \A name \in AskedNames :
            LET found == findByName(index, nameIndex, pathIndex, name, TRUE)
            IN  /\ found.error = "none"
                /\ Reflections(found.value)
                       = SelectSeq(Preorder(doc), LAMBDA n : n.name = Some(name))

\* C8: partial-mode findByName ignores letter case and returns every entry
\* exact mode returns for the same query.
C8_PartialIsSupersetOfExact ==
    Loaded =>
        \A q \in AskedNames :
            LET partial == findByName(index, nameIndex, pathIndex, q, FALSE)
                lower == findByName(index, nameIndex, pathIndex, toLowerCase(q), FALSE)
                exact == findByName(index, nameIndex, pathIndex, q, TRUE)
            IN  /\ partial.error = "none"
                /\ partial.value = lower.value
                /\ \A i \in 1..Len(exact.value) :
                       \E j \in 1..Len(partial.value) :
                           partial.value[j] = exact.value[i]

\* C9: the Kind Index bucket sizes sum to the number of visited nodes that
\* carry a defined kind, 0 included.
C9_KindBucketsCountDefinedKinds ==
    Loaded =>
        SumLen(kindIndex)
            = Len(SelectSeq(visited, LAMBDA v : IsDefined(v.node.kind)))

\* The number of nodes of a kind in a document.
CountKind(root, kind) ==
    Len(SelectSeq(Preorder(root), LAMBDA n : n.kind = Some(kind)))

\* C10: getStats is all zero before any load; after any sequence of loads
\* total is the ID Index size and each count is the number of nodes of that
\* kind in the most recently loaded tree.
C10_StatsReflectLastLoad ==
    LET stats == getStats(index, kindIndex)
    IN  /\ loads = 0 =>
              stats = [total |-> 0, classes |-> 0, interfaces |-> 0,
                       functions |-> 0, variables |-> 0, types |-> 0,
                       enums |-> 0, modules |-> 0]
        /\ Loaded =>
              /\ stats.total = MapSize(index)
              /\ stats.classes = CountKind(doc, ReflectionKind.Class)
              /\ stats.interfaces = CountKind(doc, ReflectionKind.Interface)
              /\ stats.functions = CountKind(doc, ReflectionKind.Function)
              /\ stats.variables = CountKind(doc, ReflectionKind.Variable)
              /\ stats.types = CountKind(doc, ReflectionKind.TypeAlias)
              /\ stats.enums = CountKind(doc, ReflectionKind.Enum)
              /\ stats.modules = CountKind(doc, ReflectionKind.Module)

\* The path a reverse id -> path Map written next to pathIndex.set would hold
\* for an id: the path of the last visit of a node carrying that id.
ReversePath(id) ==
    LET last == CHOOSE i \in 1..Len(visited) :
                    /\ visited[i].node.id = id
                    /\ \A j \in (i + 1)..Len(visited) : visited[j].node.id # id
    IN  visited[last].path

\* C11: the path of every resolved entry, found by the linear scan of the
\* Path Index, is the path a reverse id -> path mapping recorded during the
\* load gives for the node, path collisions included.
C11_ScanPathIsRecordedPath ==
    Loaded =>
        \A i \in 1..Len(index) :
            createParsedSymbol(pathIndex, index[i][2]).path
                = ReversePath(index[i][2].id)

\* The text a name contributes to a path.
NameText(node) == TemplateStr(node.name)

\* The visits the rule "parent's path, a dot, own name; the name alone under
\* an empty parent path" prescribes for a subtree, children before
\* signatures, both below the node's own path.
RECURSIVE ExpectedPaths(_, _)
RECURSIVE ExpectedPathsAll(_, _)
ExpectedPathsAll(nodes, path) ==
    IF nodes = <<>> THEN <<>>
    ELSE ExpectedPaths(Head(nodes), path) \o ExpectedPathsAll(Tail(nodes), path)
ExpectedPaths(node, parentPath) ==
    LET path == IF parentPath = <<>> THEN NameText(node)
                ELSE parentPath \o <<".">> \o NameText(node)
    IN  <<[node |-> node, path |-> Some(path)]>>
            \o ExpectedPathsAll(node.children, path)
            \o ExpectedPathsAll(node.signatures, path)

\* C12: a load computes each node's path from its parent's computed path, a
\* dot and its own name (the name alone under an empty parent path), hands
\* that path to children and signatures alike, and registers every node under
\* its path.
C12_PathsFollowTheTree ==
    Loaded =>
        /\ [i \in 1..Len(LastLoadVisits) |->
               [node |-> LastLoadVisits[i].node, path |-> LastLoadVisits[i].path]]
               = ExpectedPaths(doc, <<>>)
        /\ \A i \in 1..Len(LastLoadVisits) :
               MapHas(pathIndex, LastLoadVisits[i].path)

\* A signature of a member of the root was registered at
\* owner path + "." + signature name.
C12_Witness ==
    /\ Loaded
    /\ \E i \in 1..Len(LastLoadVisits) :
          /\ LastLoadVisits[i].node.kind = Some(ReflectionKind.CallSignature)
          /\ LastLoadVisits[i].path
                 = Some(sLib \o <<".">> \o sWidget \o <<".">> \o sRender)

\* C13: no query changes an entry of any of the four indices, whether it
\* finds something or not.
C13_QueriesLeaveIndicesAlone ==
    [][(loads' = loads /\ writes' = writes) => indices' = indices]_vars

\* A findByPath that found nothing was answered on a loaded parser.
C13_Witness ==
    /\ Loaded
    /\ index # <<>>
    /\ result.op = "findByPath"
    /\ IsNull(result.value)

\* C15: on every loaded tree, nodes without a name or id included,
\* findByName returns a list in both modes and never throws.
C15_FindByNameNeverThrows ==
    Loaded =>
        \A q \in AskedNames, exact \in BOOLEAN :
            findByName(index, nameIndex, pathIndex, q, exact).error = "none"

\* The distinct names of the visited nodes, in the order of first discovery.
RECURSIVE FirstSeen(_, _)
FirstSeen(vis, seen) ==
    IF vis = <<>> THEN seen
    ELSE FirstSeen(Tail(vis),
                   IF \E i \in 1..Len(seen) : seen[i] = Head(vis).node.name
                   THEN seen
                   ELSE Append(seen, Head(vis).node.name))

\* The ids discovered under a name, in discovery order.
DiscoveredIds(name) ==
    LET hits == SelectSeq(visited, LAMBDA v : v.node.name = name)
    IN  [i \in 1..Len(hits) |-> hits[i].node.id]

\* The groups of the names that contain q, letter case ignored, in order.
RECURSIVE ExpectedGroups(_, _)
ExpectedGroups(names, q) ==
    IF names = <<>> THEN <<>>
    ELSE LET ids == DiscoveredIds(Head(names))
             group == [i \in 1..Len(ids) |->
                          createParsedSymbol(pathIndex, MapGet(index, ids[i])[1])]
             rest == ExpectedGroups(Tail(names), q)
         IN  IF includes(toLowerCase(Head(names)[1]), toLowerCase(q))
             THEN group \o rest
             ELSE rest

\* C16: what partial-mode findByName returns is grouped by name, the names in
\* the order of their first discovery, the entries of a name in discovery
\* order; the same query on the same indices returns the same sequence.
C16_PartialOrderIsDiscoveryOrder ==
    \A q \in AskedNames :
        LET found == findByName(index, nameIndex, pathIndex, q, FALSE)
        IN  found.error = "none" =>
                found.value = ExpectedGroups(FirstSeen(visited, <<>>), q)

\* A partial query answered with four entries out of three name buckets.
C16_Witness ==
    /\ Loaded
    /\ result.op = "findByName"
    /\ result.error = "none"
    /\ result.args = <<sA, FALSE>>
    /\ Len(result.value) = 4
    /\ \E i, j \in 1..4 : i < j /\ result.value[i].name = result.value[j].name
    /\ \E i, j \in 1..4 : result.value[i].name # result.value[j].name

\* The kinds a caller may ask for: the query kinds and every kind value of
\* the loaded document.
AskedKinds ==
    QueryKinds \cup
    { n.kind[1] : n \in { m \in ReachableNodes(doc) : IsDefined(m.kind) } }

\* C17: findByKind(k) returns the nodes visited by the load whose kind is k,
\* each once, in discovery order; a combined value such as All matches only
\* the nodes carrying exactly that value.
C17_FindByKindIsExactKind ==
    Loaded =>
        \A k \in AskedKinds :
            Reflections(findByKind(index, kindIndex, pathIndex, k))
                = SelectSeq(Preorder(doc), LAMBDA n : n.kind = Some(k))

\* The ids some visit stored a node under.
StoredIds ==
    { visited[i].node.id[1] :
          i \in { j \in 1..Len(visited) : IsDefined(visited[j].node.id) } }

\* The node most recently stored under an id.
LastStored(id) ==
    LET last == CHOOSE i \in 1..Len(visited) :
                    /\ visited[i].node.id = Some(id)
                    /\ \A j \in (i + 1)..Len(visited) :
                           visited[j].node.id # Some(id)
    IN  visited[last].node

\* C18: getById never throws; for an id a node was stored under it returns
\* that node, for every other id it returns null.
C18_GetByIdIsStoredOrNull ==
    /\ result.op = "getById" => result.error = "none"
    /\ \A id \in QueryIds \cup StoredIds \cup {5} :
           getById(index, id) = IF id \in StoredIds THEN LastStored(id) ELSE Null

\* getById was asked for id 0 and returned the node stored under it while
\* nothing is stored under id 4.
C18_Witness ==
    /\ result.op = "getById"
    /\ result.args = <<0>>
    /\ ~IsNull(result.value)
    /\ result.value.id = Some(0)
    /\ IsNull(getById(index, 4))

\* C14: in the running server, whatever the interleaving of the requests,
\* once a request has been answered from the indices no later step changes
\* any of them.
C14_LoadThenFreeze ==
    [][Answered => indices' = indices]_vars

C20_GeneratedDocsAvailable ==
    \A r \in 1..Len(requests) :
        (/\ requests[r].kind \in ParserRequired
         /\ requests[r].afterGeneration
         /\ requests[r].pc = "done")
        => requests[r].outcome = "answered"

\* No id occurs twice in a bucket of a Map<key, id[]>.
NoRepeatedId(m) ==
    \A b \in 1..Len(m) :
        \A i, j \in 1..Len(m[b][2]) : i # j => m[b][2][i] # m[b][2][j]

\* C27: whatever the interleaving of the requests, the document is traversed
\* at most once per parser, so no id occurs twice in a bucket of the Name
\* Index or of the Kind Index.
C27_NoIdTwiceInABucket ==
    NoRepeatedId(nameIndex) /\ NoRepeatedId(kindIndex)

\* Request r gets its answer from the parser in this step.
NewlyAnswered(r) ==
    /\ r \in 1..Len(requests')
    /\ requests'[r].outcome = "answered"
    /\ r \in 1..Len(requests) => requests[r].outcome # "answered"

\* C28: a request is answered from the parser only if a parse() call on the
\* parser this.parser refers to has returned without throwing.
C28_AnsweredOnlyAfterSuccessfulParse ==
    [][\A r \in 1..MaxRequests : NewlyAnswered(r) => successes' > 0]_vars

\* The ids of a sequence of nodes.
IdsOf(nodes) == [i \in 1..Len(nodes) |-> nodes[i].id]

\* The last n elements of a sequence of at least n elements.
LastN(seq, n) == SubSeq(seq, Len(seq) - n + 1, Len(seq))

\* A bucket ends with the ids of the given nodes, in their order.
EndsWithIdsOf(got, nodes) ==
    /\ IsDefined(got)
    /\ Len(got[1]) >= Len(nodes)
    /\ LastN(got[1], Len(nodes)) = IdsOf(nodes)

\* C25: discovery order is depth-first pre-order: a load visits a node, then
\* each child with its whole subtree in sequence order, then the signatures;
\* and it appends the ids to the name and kind buckets in that order.
C25_DiscoveryIsPreorder ==
    Loaded =>
        /\ [i \in 1..Len(LastLoadVisits) |-> LastLoadVisits[i].node] = Preorder(doc)
        /\ \A n \in ReachableNodes(doc) :
              /\ EndsWithIdsOf(MapGet(nameIndex, n.name),
                               SelectSeq(Preorder(doc), LAMBDA m : m.name = n.name))
              /\ TruthyNum(n.kind) =>
                     EndsWithIdsOf(MapGet(kindIndex, n.kind),
                                   SelectSeq(Preorder(doc), LAMBDA m : m.kind = n.kind))

\* A load visited a root, then its child, then its signature and last the
\* node below that signature.
C25_Witness ==
    /\ Loaded
    /\ doc.children # <<>>
    /\ doc.signatures # <<>>
    /\ Len(LastLoadVisits) = 4
    /\ LastLoadVisits[2].node = doc.children[1]
    /\ LastLoadVisits[3].node = doc.signatures[1]
    /\ LastLoadVisits[4].node = doc.signatures[1].children[1]

\* Every findSymbol argument object the input schema admits over the names
\* asked for, and one kind that is no key of kindMap.
AskedFindSymbolParams ==
    [name : AskedNames,
     kind : {Undefined, Some("class"), Some("interface"), Some("function"),
             Some("type"), Some("enum"), Some("variable"), Some("method")},
     exact : {Undefined, Some(TRUE), Some(FALSE)}]

\* What the claim prescribes for an argument object: the entries of
\* findByName(name, exact), exact true when omitted, narrowed by the kind.
FilteredFindByName(params) ==
    LET exact == IF params.exact = Undefined THEN TRUE ELSE params.exact[1]
        entries == findByName(index, nameIndex, pathIndex, params.name, exact)
        kept == IF params.kind = Undefined THEN entries.value
                ELSE SelectSeq(entries.value,
                         LAMBDA s : s.reflection.kind = kindMap(params.kind[1]))
    IN  IF entries.error # "none" THEN entries
        ELSE Return([i \in 1..Len(kept) |-> SymbolOf(kept[i])])

\* C23: findSymbol returns the entries of findByName(name, exact), exact
\* being true when omitted, in the same order, and with a kind filter only
\* those whose node kind is the reflection kind the filter maps to. Stated of
\* the call just made and, on the indices as a load leaves them, of every
\* argument object.
C23_FindSymbolIsFilteredFindByName ==
    /\ result.op = "findSymbol" =>
           LET claimed == FilteredFindByName(result.args[1])
           IN  result.error = claimed.error /\ result.value = claimed.value
    /\ result.op = "parse" =>
           \A params \in AskedFindSymbolParams :
               findSymbol(index, nameIndex, pathIndex, params)
                   = FilteredFindByName(params)

\* findSymbol({name: "W", kind: "class"}) returned two of the three nodes
\* named W, the two classes.
C23_Witness ==
    /\ Loaded
    /\ result.op = "findSymbol"
    /\ result.args = <<[name |-> sWidget, kind |-> Some("class"), exact |-> Undefined]>>
    /\ result.error = "none"
    /\ Len(result.value) = 2
    /\ Len(findByName(index, nameIndex, pathIndex, sWidget, TRUE).value) = 3

\* Every getDocumentation argument object over the ids and paths asked for.
AskedGetDocumentationParams ==
    [symbolId : {Undefined} \cup { Some(id) : id \in QueryIds \cup StoredIds },
     symbolPath : {Undefined} \cup { Some(p) : p \in QueryPaths(pathIndex) }]

\* C24: getDocumentation fails with 'Either symbolId or symbolPath must be
\* provided' when both are absent; a given symbolId decides alone, else the
\* path does; it documents the symbol the id or path identifies in the
\* indices and fails with 'Symbol not found' when there is none.
C24_GetDocumentationResolves ==
    Loaded =>
        \A params \in AskedGetDocumentationParams :
            LET out == getDocumentation(index, pathIndex, params)
                byId == MapGet(index, params.symbolId)
                idOfPath == MapGet(pathIndex, params.symbolPath)
                byPath == IF IsDefined(idOfPath) THEN MapGet(index, idOfPath[1])
                          ELSE Undefined
                chosen == IF IsDefined(params.symbolId) THEN byId ELSE byPath
            IN  IF ~IsDefined(params.symbolId) /\ ~IsDefined(params.symbolPath)
                THEN out.error = "Either symbolId or symbolPath must be provided"
                ELSE IF IsDefined(chosen)
                THEN out = Return(Documentation(chosen[1]))
                ELSE out.error = "Symbol not found"

\* C30: runCommand settles once, by the first of 'error' and 'close',
\* whatever the order of the child's events, and the code it reports is 0
\* only when the command ran and exited with code 0.
C30_RunCommandSettlesOnceTruthfully ==
    /\ IsDefined(child.promise) <=> (child.errored \/ child.closed)
    /\ child.first = "error" => child.promise[1].code = 1
    /\ (IsDefined(child.promise) /\ child.promise[1].code = 0)
           => child.fate = "exit0"

Ran(command) ==
    \E i \in 1..Len(generation.commands) : generation.commands[i] = command

\* typedoc is named neither in devDependencies nor in dependencies.
TypedocAbsent ==
    /\ generation.packageJson.state = "json"
    /\ ~IsDefined(generation.packageJson.devDependencies)
    /\ ~IsDefined(generation.packageJson.dependencies)

\* C26: npm install --save-dev typedoc runs only when typedoc is absent from
\* package.json and install is true; npx typedoc never runs when
\* package.json is missing, when typedoc is absent and install is not
\* requested, or when the install exited non-zero; the install comes before
\* the generation.
C26_InstallOnlyWhenAbsentAndAsked ==
    /\ Ran("npm install --save-dev typedoc")
           => TypedocAbsent /\ generation.install = Some(TRUE)
    /\ Ran("npx typedoc")
           => /\ generation.packageJson.state # "missing"
              /\ ~(TypedocAbsent /\ generation.install # Some(TRUE))
              /\ generation.installFate \notin {"exit1", "exit127"}
    /\ \A i, j \in 1..Len(generation.commands) :
           (generation.commands[i] = "npm install --save-dev typedoc"
               /\ generation.commands[j] = "npx typedoc") => i < j

\* C29: generateTypeDocConfig creates or overwrites no file on a failure
\* outcome: a call that returns success false has left typedoc.json as it
\* was, and typedoc.json is written only by a call that returns success
\* true.
C29_FailureLeavesFilesAlone ==
    /\ setup.pc = "done" /\ setup.success = Some(FALSE) => setup.touched = "no"
    /\ setup.touched # "no" => setup.success = Some(TRUE)

\* The text of the response.
ResponseText == call.response[1].content[1].text

\* The handler returned a response whose content is one text item.
RespondedWithText ==
    /\ ~call.propagated
    /\ IsDefined(call.response)
    /\ Len(call.response[1].content) = 1
    /\ call.response[1].content[1].type = "text"

CanBeLoaded ==
    /\ file \notin {Missing, Garbage, JsonNull}
    /\ ~buildIndex(IndexState(<<>>, <<>>, <<>>, <<>>, <<>>, 0, FALSE),
                   file.root, Some(<<>>)).thrown

\* C22: while the documentation cannot be loaded, no call of findSymbol,
\* getDocumentation, getMembers or searchByTag gets to its tool function (it
\* is answered 'Documentation not available'), and checkTypeDocSetup,
\* generateTypeDocConfig and runTypeDocGeneration are dispatched all the
\* same.
C22_NotAvailableWhenUnloadable ==
    /\ [][\A r \in 1..MaxRequests :
             (NewlyAnswered(r) /\ requests'[r].kind \in ParserRequiredTools)
                 => CanBeLoaded]_vars
    /\ [](\A r \in 1..Len(requests) :
             requests[r].kind \in SetupTools \cup {"runTypeDocGeneration"}
                 => requests[r].outcome # "notAvailable")

====
